---- MODULE Spec2Model ----
(***************************************************************************)
(* Model of scripts/preprocess_data.py: the county aggregation of census   *)
(* and mobility data, the merge of the two persisted tables, the rank      *)
(* correlation call, the COVID deaths table and the state aggregation.     *)
(*                                                                         *)
(* Text is a sequence of characters.  A character is a number: 0..9 are    *)
(* the decimal digits, NonDigit is a letter.  A CSV cell is text; the      *)
(* empty cell is <<>>.  An int64 value of a pandas column is held as its   *)
(* canonical decimal digits (no leading zero), because block-group codes   *)
(* have 12 digits.  A float is held as the fraction <<n, d>> in lowest     *)
(* terms; NaN is <<0, 0>> and inf is <<1, 0>>.  The decimal text a float   *)
(* is written as and read back from is held as the same fraction.          *)
(* A Python dict is the sequence of its <<key, value>> items in insertion  *)
(* order.                                                                  *)
(***************************************************************************)
EXTENDS Integers, Sequences, FiniteSets, TLC

VARIABLES
    census_csv,                           \* ../data/census-2018-pop.csv, rows after the header
    safegraph_csv,                        \* ../data/safegraph/2020-04-23-social-distancing.csv
    covid_csv,                            \* ../data/Provisional_COVID-19_Death_Counts_...csv
    county_fips_to_number_of_males,       \* locals of preprocess_census_data
    county_fips_to_number_of_females,
    census_gender_by_county,              \* ../data/census_gender_by_county.csv
    county_fips_to_device_count,          \* locals of preprocess_distancing_data
    county_fips_to_completely_home_count,
    safegraph_aggregated,                 \* ../data/safegraph_aggregated_04-23_by_county.csv
    merged,                               \* ../data/census_and_safegraph_data_merged.csv
    spearman_args,                        \* the two samples handed to spearmanr
    covid_preprocessed,                   \* ../data/covid_deaths_by_state_and_gender_preprocessed.csv
    state_names,                          \* df["state"] in aggregate_distancing_by_state
    aggregated_by_state,                  \* ../data/census_and_safegraph_aggregated_by_state.csv
    pc,                                   \* the call of __main__ that runs next
    raised,                               \* the exception that ended the run, or "none"
    unpadded_fips,                        \* a key given to the padding of lines 215-218
    padded,                               \* its padding
    padded_again                          \* the padding of the padding

vars == <<census_csv, safegraph_csv, covid_csv,
          county_fips_to_number_of_males, county_fips_to_number_of_females,
          census_gender_by_county,
          county_fips_to_device_count, county_fips_to_completely_home_count,
          safegraph_aggregated, merged, spearman_args, covid_preprocessed,
          state_names, aggregated_by_state, pc, raised,
          unpadded_fips, padded, padded_again>>

-----------------------------------------------------------------------------
(* Bounds of the model. *)

\* Rows of the census file and of the mobility file together.
MaxRows == 3

\* Rows of the COVID deaths file.
MaxCovidRows == 3

-----------------------------------------------------------------------------
(* Program constants. *)

STATE_COLNUM == 1
COUNTY_COLNUM == 2
MALE_COLNUM == 8
FEMALE_COLNUM == 9

\* str(full_fips_code)[:5]
CountyPrefixLen == 5

\* str(unpadded_fips).zfill(5)
KeyWidth == 5

\* str(county_fips)[:2]
StatePrefixLen == 2

-----------------------------------------------------------------------------
(* Text, numbers and dicts. *)

Digit == 0..9
NonDigit == 10

NaN == <<0, 0>>
Inf == <<1, 0>>

\* A file that was not written, and a written file with its rows.
Absent == [exists |-> FALSE, rows |-> <<>>]
File(rows) == [exists |-> TRUE, rows |-> rows]

Front(s) == SubSeq(s, 1, Len(s) - 1)
Last(s) == s[Len(s)]

\* Text a numeric parse accepts as an integer.
IsDigits(s) == Len(s) > 0 /\ \A i \in 1..Len(s) : s[i] \in Digit

RECURSIVE IntValue(_)
IntValue(s) == IF s = <<>> THEN 0 ELSE IntValue(Front(s)) * 10 + Last(s)

\* The decimal digits of the integer a digit text denotes: str(int(s)).
RECURSIVE StripZeros(_)
StripZeros(s) == IF Len(s) > 1 /\ Head(s) = 0 THEN StripZeros(Tail(s)) ELSE s

\* s[:n]
Prefix(s, n) == SubSeq(s, 1, IF Len(s) < n THEN Len(s) ELSE n)

RECURSIVE GCD(_, _)
GCD(a, b) == IF b = 0 THEN a ELSE GCD(b, a % b)

\* The float n / d for d > 0.
Fraction(n, d) == LET g == GCD(n, d) IN <<n \div g, d \div g>>

Keys(d) == {d[i][1] : i \in 1..Len(d)}
Get(d, k) == d[CHOOSE i \in 1..Len(d) : d[i][1] = k][2]
Put(d, k, v) ==
    IF k \in Keys(d)
    THEN [i \in 1..Len(d) |-> IF d[i][1] = k THEN <<k, v>> ELSE d[i]]
    ELSE Append(d, <<k, v>>)

\* {fips : 0 for fips in keys}
RECURSIVE ZeroDict(_)
ZeroDict(keys) ==
    IF keys = <<>> THEN <<>> ELSE Put(ZeroDict(Front(keys)), Last(keys), 0)

-----------------------------------------------------------------------------
(* preprocess_census_data *)

\* The body of the try block: row[9] must exist and both counts must parse.
CensusRowParses(row) ==
    /\ Len(row) > FEMALE_COLNUM
    /\ IsDigits(row[MALE_COLNUM + 1])
    /\ IsDigits(row[FEMALE_COLNUM + 1])

\* The four lists filled by the loop over the reader, one record per kept row.
CensusRecords(rows) ==
    LET kept == SelectSeq(rows, CensusRowParses)
    IN [i \in 1..Len(kept) |->
           [state_fips_code |-> kept[i][STATE_COLNUM + 1],
            county_fips_code |-> kept[i][COUNTY_COLNUM + 1],
            number_of_males |-> IntValue(kept[i][MALE_COLNUM + 1]),
            number_of_females |-> IntValue(kept[i][FEMALE_COLNUM + 1])]]

StatePlusCountyFips(recs) ==
    [i \in 1..Len(recs) |-> recs[i].state_fips_code \o recs[i].county_fips_code]

\* The loop with d[key] = number in place of d[key] += number.
RECURSIVE AccumulateOverwrite(_, _, _)
AccumulateOverwrite(d, keys, numbers) ==
    IF keys = <<>> THEN d
    ELSE Put(AccumulateOverwrite(d, Front(keys), Front(numbers)), Last(keys), Last(numbers))

\* The loop d[key] += number over the zipped rows, Python ints.
RECURSIVE Accumulate(_, _, _)
Accumulate(d, keys, numbers) ==
    IF keys = <<>> THEN d
    ELSE LET p == Accumulate(d, Front(keys), Front(numbers))
         IN Put(p, Last(keys), Get(p, Last(keys)) + Last(numbers))

CensusSums(recs, field) ==
    LET keys == StatePlusCountyFips(recs)
    IN Accumulate(ZeroDict(keys), keys,
                  [i \in 1..Len(recs) |->
                      IF field = "males" THEN recs[i].number_of_males
                      ELSE recs[i].number_of_females])

\* num_males / (num_males + num_females) on Python ints raises on 0 / 0.
CensusRaises(males, females) ==
    \E i \in 1..Len(males) : males[i][2] + females[i][2] = 0

CensusProportions(males, females) ==
    [i \in 1..Len(males) |->
        <<males[i][1], Fraction(males[i][2], males[i][2] + females[i][2])>>]

preprocess_census_data ==
    /\ pc = "preprocess_census_data"
    /\ LET recs == CensusRecords(census_csv)
           males == CensusSums(recs, "males")
           females == CensusSums(recs, "females")
       IN /\ county_fips_to_number_of_males' = males
          /\ county_fips_to_number_of_females' = females
          /\ IF CensusRaises(males, females)
             THEN /\ raised' = "ZeroDivisionError"
                  /\ pc' = "exit"
                  /\ UNCHANGED census_gender_by_county
             ELSE /\ census_gender_by_county' = File(CensusProportions(males, females))
                  /\ pc' = "preprocess_distancing_data"
                  /\ UNCHANGED raised
    /\ UNCHANGED <<census_csv, safegraph_csv, covid_csv,
                   county_fips_to_device_count, county_fips_to_completely_home_count,
                   safegraph_aggregated, merged, spearman_args, covid_preprocessed,
                   state_names, aggregated_by_state,
                   unpadded_fips, padded, padded_again>>

-----------------------------------------------------------------------------
(* pandas.read_csv and str() *)

\* The dtype read_csv infers for a column from its cells.
ColumnDtype(cells) ==
    IF Len(cells) > 0 /\ \A i \in 1..Len(cells) : IsDigits(cells[i]) THEN "int64"
    ELSE IF Len(cells) > 0 /\ \A i \in 1..Len(cells) : IsDigits(cells[i]) \/ cells[i] = <<>>
         THEN "float64"
         ELSE "object"

\* A column of codes as loaded: integers when every cell is numeric, else the
\* cells' own text.  (No cell of a code column is empty in this model.)
ReadCodeColumn(cells) ==
    [i \in 1..Len(cells) |->
        IF ColumnDtype(cells) = "int64"
        THEN [type |-> "int", text |-> StripZeros(cells[i])]
        ELSE [type |-> "str", text |-> cells[i]]]

\* A numeric column as loaded, int64 or float64: a number is <<n, 1>>, an
\* empty cell is NaN.
ReadNumberColumn(cells) ==
    [i \in 1..Len(cells) |->
        IF IsDigits(cells[i]) THEN <<IntValue(cells[i]), 1>> ELSE NaN]

\* str(value) of a loaded code.
PyStr(v) == v.text

\* text.ljust(width, "0") in place of text.zfill(width).
ljust0(text, width) ==
    IF Len(text) >= width THEN text
    ELSE text \o [i \in 1..(width - Len(text)) |-> 0]

\* text.zfill(width)
zfill(text, width) ==
    IF Len(text) >= width THEN text
    ELSE [i \in 1..(width - Len(text)) |-> 0] \o text

\* numpy scalar addition and true division: no exception.
NpAdd(a, b) == IF a = NaN \/ b = NaN THEN NaN ELSE <<a[1] + b[1], 1>>
NpDivide(a, b) ==
    IF a = NaN \/ b = NaN THEN NaN
    ELSE IF b[1] = 0 THEN (IF a[1] = 0 THEN NaN ELSE Inf)
    ELSE Fraction(a[1], b[1])

Column(rows, name) == [i \in 1..Len(rows) |-> rows[i][name]]

-----------------------------------------------------------------------------
(* preprocess_distancing_data *)

\* str(full_fips_code)[:5] for every value of origin_census_block_group.
CountyFipsCodes(rows) ==
    LET codes == ReadCodeColumn(Column(rows, "origin_census_block_group"))
    IN [i \in 1..Len(codes) |-> Prefix(PyStr(codes[i]), CountyPrefixLen)]

\* The loop d[county_fips] += count over the zipped rows, numpy scalars.
RECURSIVE AccumulateCounts(_, _, _)
AccumulateCounts(d, keys, numbers) ==
    IF keys = <<>> THEN d
    ELSE LET p == AccumulateCounts(d, Front(keys), Front(numbers))
         IN Put(p, Last(keys), NpAdd(Get(p, Last(keys)), Last(numbers)))

RECURSIVE ZeroCounts(_)
ZeroCounts(keys) ==
    IF keys = <<>> THEN <<>> ELSE Put(ZeroCounts(Front(keys)), Last(keys), <<0, 1>>)

DistancingSums(rows, name) ==
    LET keys == CountyFipsCodes(rows)
    IN AccumulateCounts(ZeroCounts(keys), keys, ReadNumberColumn(Column(rows, name)))

\* 0 + "100": a count column loaded as text ends the run at the first +=.
DistancingRaises(rows) ==
    \/ ColumnDtype(Column(rows, "device_count")) = "object" /\ Len(rows) > 0
    \/ ColumnDtype(Column(rows, "completely_home_device_count")) = "object" /\ Len(rows) > 0

DistancingProportions(devices, homes) ==
    [i \in 1..Len(devices) |->
        <<devices[i][1], NpDivide(Get(homes, devices[i][1]), devices[i][2])>>]

preprocess_distancing_data ==
    /\ pc = "preprocess_distancing_data"
    /\ IF DistancingRaises(safegraph_csv)
       THEN /\ raised' = "TypeError"
            /\ pc' = "exit"
            /\ UNCHANGED <<county_fips_to_device_count,
                           county_fips_to_completely_home_count, safegraph_aggregated>>
       ELSE LET devices == DistancingSums(safegraph_csv, "device_count")
                homes == DistancingSums(safegraph_csv, "completely_home_device_count")
            IN /\ county_fips_to_device_count' = devices
               /\ county_fips_to_completely_home_count' = homes
               /\ safegraph_aggregated' = File(DistancingProportions(devices, homes))
               /\ pc' = "merge_census_and_distancing_data"
               /\ UNCHANGED raised
    /\ UNCHANGED <<census_csv, safegraph_csv, covid_csv,
                   county_fips_to_number_of_males, county_fips_to_number_of_females,
                   census_gender_by_county, merged, spearman_args, covid_preprocessed,
                   state_names, aggregated_by_state,
                   unpadded_fips, padded, padded_again>>

-----------------------------------------------------------------------------
(* merge_census_and_distancing_data *)

\* str(unpadded_fips) with the zfill left out.
PadLeftOut(v) == PyStr(v)

\* str(unpadded_fips).zfill(5)
Pad(v) == zfill(PyStr(v), KeyWidth)

\* The county_fips column of a persisted table, reloaded and padded.
PaddedKeys(rows) ==
    LET loaded == ReadCodeColumn([i \in 1..Len(rows) |-> rows[i][1]])
    IN [i \in 1..Len(loaded) |-> Pad(loaded[i])]

\* {k : v for k, v in zip(keys, values)}
RECURSIVE DictFromZip(_, _)
DictFromZip(keys, values) ==
    IF keys = <<>> THEN <<>>
    ELSE Put(DictFromZip(Front(keys), Front(values)), Last(keys), Last(values))

ReloadedTable(rows) ==
    DictFromZip(PaddedKeys(rows), [i \in 1..Len(rows) |-> rows[i][2]])

\* One row per census key that the mobility dict has; a KeyError is passed over.
MergedRows(county_fips_to_prop_male, county_fips_to_prop_stayed_home) ==
    LET shared(item) == item[1] \in Keys(county_fips_to_prop_stayed_home)
        kept == SelectSeq(county_fips_to_prop_male, shared)
    IN [i \in 1..Len(kept) |->
           <<kept[i][1], kept[i][2], Get(county_fips_to_prop_stayed_home, kept[i][1])>>]

merge_census_and_distancing_data ==
    /\ pc = "merge_census_and_distancing_data"
    /\ merged' = File(MergedRows(ReloadedTable(census_gender_by_county.rows),
                                 ReloadedTable(safegraph_aggregated.rows)))
    /\ pc' = "analyze_merged_data"
    /\ UNCHANGED <<census_csv, safegraph_csv, covid_csv,
                   county_fips_to_number_of_males, county_fips_to_number_of_females,
                   census_gender_by_county,
                   county_fips_to_device_count, county_fips_to_completely_home_count,
                   safegraph_aggregated, spearman_args, covid_preprocessed,
                   state_names, aggregated_by_state, raised,
                   unpadded_fips, padded, padded_again>>

-----------------------------------------------------------------------------
(* analyze_merged_data *)

\* spearmanr(df.proportion_male, df.proportion_stayed_at_home): both columns whole.
analyze_merged_data ==
    /\ pc = "analyze_merged_data"
    /\ spearman_args' = [called |-> TRUE,
                         proportion_male |-> [i \in 1..Len(merged.rows) |-> merged.rows[i][2]],
                         proportion_stayed_at_home |->
                             [i \in 1..Len(merged.rows) |-> merged.rows[i][3]]]
    /\ pc' = "preprocess_covid_deaths_data"
    /\ UNCHANGED <<census_csv, safegraph_csv, covid_csv,
                   county_fips_to_number_of_males, county_fips_to_number_of_females,
                   census_gender_by_county,
                   county_fips_to_device_count, county_fips_to_completely_home_count,
                   safegraph_aggregated, merged, covid_preprocessed,
                   state_names, aggregated_by_state, raised,
                   unpadded_fips, padded, padded_again>>

-----------------------------------------------------------------------------
(* preprocess_covid_deaths_data *)

\* state_to_female_deaths / state_to_male_deaths: the last row of a state wins.
StateToDeaths(rows, age_group) ==
    LET deaths == ReadNumberColumn(Column(rows, "deaths"))
        numbered == [i \in 1..Len(rows) |->
                        [state |-> rows[i].state, age_group |-> rows[i].age_group,
                         covid_deaths |-> deaths[i]]]
        of_group(r) == r.age_group = age_group
        kept == SelectSeq(numbered, of_group)
    IN DictFromZip(Column(kept, "state"), Column(kept, "covid_deaths"))

\* not np.isnan(deaths) and deaths > 0
ValidDeaths(deaths) == deaths # NaN /\ deaths[1] > 0

PropMaleDeaths(male_deaths, female_deaths) ==
    IF ValidDeaths(male_deaths) /\ ValidDeaths(female_deaths)
    THEN Fraction(male_deaths[1], male_deaths[1] + female_deaths[1])
    ELSE NaN

\* state_to_female_deaths[state] raises KeyError for a state with no female row.
CovidRaises(males, females) ==
    \E i \in 1..Len(males) : males[i][1] \notin Keys(females)

\* The rows written before the loop ends or raises.
CovidRowsWritten(males, females) ==
    LET bad == {i \in 1..Len(males) : males[i][1] \notin Keys(females)}
        stop == IF bad = {} THEN Len(males) + 1
                ELSE CHOOSE i \in bad : \A j \in bad : i <= j
    IN [i \in 1..(stop - 1) |->
           <<males[i][1], males[i][2], Get(females, males[i][1]),
             PropMaleDeaths(males[i][2], Get(females, males[i][1]))>>]

preprocess_covid_deaths_data ==
    /\ pc = "preprocess_covid_deaths_data"
    /\ LET males == StateToDeaths(covid_csv, "Male, all ages")
           females == StateToDeaths(covid_csv, "Female, all ages")
       IN /\ covid_preprocessed' = File(CovidRowsWritten(males, females))
          /\ IF CovidRaises(males, females)
             THEN raised' = "KeyError" /\ pc' = "exit"
             ELSE pc' = "aggregate_distancing_by_state" /\ UNCHANGED raised
    /\ UNCHANGED <<census_csv, safegraph_csv, covid_csv,
                   county_fips_to_number_of_males, county_fips_to_number_of_females,
                   census_gender_by_county,
                   county_fips_to_device_count, county_fips_to_completely_home_count,
                   safegraph_aggregated, merged, spearman_args,
                   state_names, aggregated_by_state,
                   unpadded_fips, padded, padded_again>>

-----------------------------------------------------------------------------
(* aggregate_distancing_by_state *)

\* ../data/state_fips_codes.csv: rows of (state, fips).
StateFipsCsv ==
    << <<"Alabama", <<0, 1>> >>, <<"Delaware", <<1, 0>> >>, <<"Texas", <<4, 8>> >> >>

\* fips_code_to_state_name[str(fips)] = state
FipsCodeToStateName ==
    LET fips == ReadCodeColumn([i \in 1..Len(StateFipsCsv) |-> StateFipsCsv[i][2]])
    IN DictFromZip([i \in 1..Len(fips) |-> PyStr(fips[i])],
                   [i \in 1..Len(StateFipsCsv) |-> StateFipsCsv[i][1]])

\* [str(county_fips)[:2] for county_fips in df.county_fips]
StateFipsCodes(rows) ==
    LET loaded == ReadCodeColumn([i \in 1..Len(rows) |-> rows[i][1]])
    IN [i \in 1..Len(loaded) |-> Prefix(PyStr(loaded[i]), StatePrefixLen)]

FracAdd(a, b) == Fraction(a[1] * b[2] + b[1] * a[2], a[2] * b[2])

RECURSIVE FracSum(_)
FracSum(values) ==
    IF values = <<>> THEN <<0, 1>> ELSE FracAdd(FracSum(Front(values)), Last(values))

\* The mean of a group's column: missing values are left out.
Mean(values) ==
    LET present(v) == v # NaN
        kept == SelectSeq(values, present)
        total == FracSum(kept)
    IN IF kept = <<>> THEN NaN
       ELSE IF \E i \in 1..Len(kept) : kept[i] = Inf THEN Inf
       ELSE Fraction(total[1], total[2] * Len(kept))

\* df.groupby("state").mean(): one row per state; the rows are held as a set.
GroupByStateMean(rows, names) ==
    {<<st,
       Mean([j \in 1..Cardinality({i \in 1..Len(rows) : names[i] = st}) |->
               rows[CHOOSE i \in 1..Len(rows) :
                       /\ names[i] = st
                       /\ Cardinality({h \in 1..i : names[h] = st}) = j][2]]),
       Mean([j \in 1..Cardinality({i \in 1..Len(rows) : names[i] = st}) |->
               rows[CHOOSE i \in 1..Len(rows) :
                       /\ names[i] = st
                       /\ Cardinality({h \in 1..i : names[h] = st}) = j][3]])>> :
     st \in {names[i] : i \in 1..Len(names)}}

aggregate_distancing_by_state ==
    /\ pc = "aggregate_distancing_by_state"
    /\ LET codes == StateFipsCodes(merged.rows)
       IN IF \E i \in 1..Len(codes) : codes[i] \notin Keys(FipsCodeToStateName)
          THEN /\ raised' = "KeyError"
               /\ pc' = "exit"
               /\ UNCHANGED <<state_names, aggregated_by_state>>
          ELSE LET names == [i \in 1..Len(codes) |-> Get(FipsCodeToStateName, codes[i])]
               IN /\ state_names' = names
                  /\ aggregated_by_state' =
                         [exists |-> TRUE, rows |-> GroupByStateMean(merged.rows, names)]
                  /\ pc' = "done"
                  /\ UNCHANGED raised
    /\ UNCHANGED <<census_csv, safegraph_csv, covid_csv,
                   county_fips_to_number_of_males, county_fips_to_number_of_females,
                   census_gender_by_county,
                   county_fips_to_device_count, county_fips_to_completely_home_count,
                   safegraph_aggregated, merged, spearman_args, covid_preprocessed,
                   unpadded_fips, padded, padded_again>>

-----------------------------------------------------------------------------
(* The input files of a run. *)

Filler == <<NonDigit>>

CensusRow(state, county, males, females) ==
    <<Filler, state, county, Filler, Filler, Filler, Filler, Filler, males, females>>

\* Well-formed rows: state "01", "1" or "10", with the counts 3/7 or 0/0.
WellFormedCensusRows ==
    {CensusRow(k[1], k[2], c[1], c[2]) :
        k \in {<< <<0, 1>>, <<0, 0, 1>> >>, << <<1>>, <<0, 0, 1>> >>,
               << <<1, 0>>, <<0, 1, 0>> >>},
        c \in {<< <<3>>, <<7>> >>, << <<0>>, <<0>> >>}}

\* A row cut short before the female column, and a row with a non-numeric count.
MalformedCensusRows ==
    {Front(CensusRow(<<0, 1>>, <<0, 0, 1>>, <<3>>, <<7>>)),
     CensusRow(<<0, 1>>, <<0, 0, 1>>, <<NonDigit>>, <<7>>)}

CensusRows == WellFormedCensusRows \cup MalformedCensusRows

SafegraphRow(block, devices, homes) ==
    [origin_census_block_group |-> block, device_count |-> devices,
     completely_home_device_count |-> homes]

\* Block groups 010010001001 and 010010002001 (state 01, county 001) and
\* 100100001001 (state 10, county 010).
BlockGroups ==
    {<<0, 1, 0, 0, 1, 0, 0, 0, 1, 0, 0, 1>>,
     <<0, 1, 0, 0, 1, 0, 0, 0, 2, 0, 0, 1>>,
     <<1, 0, 0, 1, 0, 0, 0, 0, 1, 0, 0, 1>>}

\* A block-group cell that is not a number.
BadBlockGroup == <<NonDigit, 0, 0, 0, 0, 0, 0, 0, 0, 0, 0, 0>>

WellFormedSafegraphRows ==
    {SafegraphRow(b, c[1], c[2]) :
        b \in BlockGroups,
        c \in {<< <<1, 0, 0>>, <<2, 0>> >>, << <<0>>, <<0>> >>}}

MalformedSafegraphRows ==
    {SafegraphRow(BadBlockGroup, <<1, 0, 0>>, <<2, 0>>),
     SafegraphRow(<<0, 1, 0, 0, 1, 0, 0, 0, 1, 0, 0, 1>>, <<NonDigit>>, <<2, 0>>),
     SafegraphRow(<<0, 1, 0, 0, 1, 0, 0, 0, 1, 0, 0, 1>>, <<>>, <<2, 0>>)}

SafegraphRows == WellFormedSafegraphRows \cup MalformedSafegraphRows

CovidRows ==
    {[state |-> st, age_group |-> g, deaths |-> d] :
        st \in {"Alabama", "Texas"},
        g \in {"Female, all ages", "Male, all ages"},
        d \in {<<>>, <<0>>, <<3>>}}
    \cup {[state |-> "Alabama", age_group |-> "Under 1 year", deaths |-> <<0>>]}

NoKey == [type |-> "none", text |-> <<>>]

Init ==
    /\ \/ /\ \E nc \in 0..MaxRows : \E nm \in 0..(MaxRows - nc) :
                /\ census_csv \in [1..nc -> CensusRows]
                /\ safegraph_csv \in [1..nm -> SafegraphRows]
          /\ covid_csv = <<>>
       \/ /\ census_csv = <<>>
          /\ safegraph_csv = <<>>
          /\ \E n \in 1..MaxCovidRows : covid_csv \in [1..n -> CovidRows]
    /\ county_fips_to_number_of_males = <<>>
    /\ county_fips_to_number_of_females = <<>>
    /\ census_gender_by_county = Absent
    /\ county_fips_to_device_count = <<>>
    /\ county_fips_to_completely_home_count = <<>>
    /\ safegraph_aggregated = Absent
    /\ merged = Absent
    /\ spearman_args = [called |-> FALSE, proportion_male |-> <<>>,
                        proportion_stayed_at_home |-> <<>>]
    /\ covid_preprocessed = Absent
    /\ state_names = <<>>
    /\ aggregated_by_state = [exists |-> FALSE, rows |-> {}]
    /\ pc = "preprocess_census_data"
    /\ raised = "none"
    /\ unpadded_fips = NoKey
    /\ padded = <<>>
    /\ padded_again = <<>>

\* The calls of __main__, in the order of the file.
Next ==
    \/ preprocess_census_data
    \/ preprocess_distancing_data
    \/ merge_census_and_distancing_data
    \/ analyze_merged_data
    \/ preprocess_covid_deaths_data
    \/ aggregate_distancing_by_state

Spec == Init /\ [][Next]_vars

-----------------------------------------------------------------------------
(* The padding of lines 215-218 on its own: every numeric identifier of at   *)
(* most KeyWidth digits, as text or as an integer.                          *)

PadDigits == {0, 1, 9}

Identifiers ==
    LET texts == UNION {[1..n -> PadDigits] : n \in 1..KeyWidth}
    IN {[type |-> "str", text |-> t] : t \in texts}
       \cup {[type |-> "int", text |-> t] : t \in {u \in texts : StripZeros(u) = u}}

InitPad ==
    /\ unpadded_fips \in Identifiers
    /\ padded = <<>>
    /\ padded_again = <<>>
    /\ census_csv = <<>>
    /\ safegraph_csv = <<>>
    /\ covid_csv = <<>>
    /\ county_fips_to_number_of_males = <<>>
    /\ county_fips_to_number_of_females = <<>>
    /\ census_gender_by_county = Absent
    /\ county_fips_to_device_count = <<>>
    /\ county_fips_to_completely_home_count = <<>>
    /\ safegraph_aggregated = Absent
    /\ merged = Absent
    /\ spearman_args = [called |-> FALSE, proportion_male |-> <<>>,
                        proportion_stayed_at_home |-> <<>>]
    /\ covid_preprocessed = Absent
    /\ state_names = <<>>
    /\ aggregated_by_state = [exists |-> FALSE, rows |-> {}]
    /\ pc = "pad"
    /\ raised = "none"

PipelineVars ==
    <<census_csv, safegraph_csv, covid_csv,
      county_fips_to_number_of_males, county_fips_to_number_of_females,
      census_gender_by_county,
      county_fips_to_device_count, county_fips_to_completely_home_count,
      safegraph_aggregated, merged, spearman_args, covid_preprocessed,
      state_names, aggregated_by_state, pc, raised>>

\* str(unpadded_fips).zfill(5)
PadKey ==
    /\ pc = "pad"
    /\ padded = <<>>
    /\ padded' = Pad(unpadded_fips)
    /\ UNCHANGED <<unpadded_fips, padded_again, PipelineVars>>

\* The padded key, a str, padded once more.
PadAgain ==
    /\ pc = "pad"
    /\ padded # <<>>
    /\ padded_again = <<>>
    /\ padded_again' = Pad([type |-> "str", text |-> padded])
    /\ UNCHANGED <<unpadded_fips, padded, PipelineVars>>

NextPad == PadKey \/ PadAgain

SpecPad == InitPad /\ [][NextPad]_vars

-----------------------------------------------------------------------------
(* What the claims speak of. *)

\* A key's text left-padded with "0" to the width of a GeoKey.
GeoKey(text) ==
    LET fill == IF Len(text) < KeyWidth THEN KeyWidth - Len(text) ELSE 0
    IN [i \in 1..(fill + Len(text)) |-> IF i <= fill THEN 0 ELSE text[i - fill]]

RECURSIVE SumSeq(_)
SumSeq(numbers) == IF numbers = <<>> THEN 0 ELSE SumSeq(Front(numbers)) + Last(numbers)

\* A dict as the set of its items, and the per-key sum of two dicts.
Items(d) == {d[i] : i \in 1..Len(d)}
ValueOr0(d, k) == IF k \in Keys(d) THEN Get(d, k) ELSE 0
AddedItems(a, b) == {<<k, ValueOr0(a, k) + ValueOr0(b, k)>> : k \in Keys(a) \cup Keys(b)}

\* The rows of s at the positions in G, in order.
Picked(s, G) ==
    LET n == Cardinality(G \cap (1..Len(s)))
    IN [j \in 1..n |->
           s[CHOOSE i \in G \cap (1..Len(s)) : Cardinality({h \in G : h <= i}) = j]]

\* The state a call leaves behind, before the next call: its locals are as it
\* computed them.
CensusReturned == pc = "preprocess_distancing_data" \/ raised = "ZeroDivisionError"
DistancingReturned == pc = "merge_census_and_distancing_data"

\* The mobility rows whose three cells are all integers.
IntegerRows(rows) ==
    \A i \in 1..Len(rows) :
        /\ IsDigits(rows[i].origin_census_block_group)
        /\ IsDigits(rows[i].device_count)
        /\ IsDigits(rows[i].completely_home_device_count)

-----------------------------------------------------------------------------
(* C1 *)

\* C1: the keys of the merged file are the keys that both persisted tables
\* hold once each key is left-padded to 5 characters, no key is written
\* twice, and every merged row carries a prop_male persisted under that
\* county's key and a proportion_stayed_at_home persisted under that key.
MergeIsInnerJoinOnGeoKey ==
    merged.exists =>
        LET C == census_gender_by_county.rows
            S == safegraph_aggregated.rows
            M == merged.rows
        IN /\ {M[i][1] : i \in 1..Len(M)} =
                  {GeoKey(C[i][1]) : i \in 1..Len(C)} \cap {GeoKey(S[i][1]) : i \in 1..Len(S)}
           /\ \A i, j \in 1..Len(M) : M[i][1] = M[j][1] => i = j
           /\ \A i \in 1..Len(M) :
                 /\ \E c \in 1..Len(C) : GeoKey(C[c][1]) = M[i][1] /\ C[c][2] = M[i][2]
                 /\ \E h \in 1..Len(S) : GeoKey(S[h][1]) = M[i][1] /\ S[h][2] = M[i][3]

\* A merge that matched a key with a leading zero, persisted by the census
\* side and reloaded without it, while another key stayed on one side only.
MergeMatchedLeadingZeroKey ==
    /\ merged.exists
    /\ \E i \in 1..Len(merged.rows) :
          \E c \in 1..Len(census_gender_by_county.rows) :
              /\ census_gender_by_county.rows[c][1] = merged.rows[i][1]
              /\ merged.rows[i][1][1] = 0
    /\ \E i \in 1..Len(safegraph_aggregated.rows) :
          \A j \in 1..Len(merged.rows) :
              merged.rows[j][1] # GeoKey(safegraph_aggregated.rows[i][1])

-----------------------------------------------------------------------------
(* C5 *)

\* C5: for integer-valued records, the per-key sums of the census and of the
\* mobility aggregation equal the added per-key sums of any two groups the
\* rows are split into, and the sums of any reordering of the rows.
AccumulationIsAssociativeAndOrderFree ==
    /\ CensusReturned =>
          LET recs == CensusRecords(census_csv)
              n == Len(recs)
          IN /\ \A G \in SUBSET (1..n) :
                   /\ AddedItems(CensusSums(Picked(recs, G), "males"),
                                 CensusSums(Picked(recs, (1..n) \ G), "males"))
                          = Items(county_fips_to_number_of_males)
                   /\ AddedItems(CensusSums(Picked(recs, G), "females"),
                                 CensusSums(Picked(recs, (1..n) \ G), "females"))
                          = Items(county_fips_to_number_of_females)
             /\ \A f \in Permutations(1..n) :
                   /\ Items(CensusSums([i \in 1..n |-> recs[f[i]]], "males"))
                          = Items(county_fips_to_number_of_males)
                   /\ Items(CensusSums([i \in 1..n |-> recs[f[i]]], "females"))
                          = Items(county_fips_to_number_of_females)
    /\ (DistancingReturned /\ IntegerRows(safegraph_csv)) =>
          LET rows == safegraph_csv
              n == Len(rows)
              ints(d) == {<<d[i][1], d[i][2][1]>> : i \in 1..Len(d)}
              added(a, b) ==
                  {<<k, (IF k \in Keys(a) THEN Get(a, k)[1] ELSE 0)
                        + (IF k \in Keys(b) THEN Get(b, k)[1] ELSE 0)>> :
                      k \in Keys(a) \cup Keys(b)}
          IN /\ \A G \in SUBSET (1..n) :
                   /\ added(DistancingSums(Picked(rows, G), "device_count"),
                            DistancingSums(Picked(rows, (1..n) \ G), "device_count"))
                          = ints(county_fips_to_device_count)
                   /\ added(DistancingSums(Picked(rows, G), "completely_home_device_count"),
                            DistancingSums(Picked(rows, (1..n) \ G),
                                           "completely_home_device_count"))
                          = ints(county_fips_to_completely_home_count)
             /\ \A f \in Permutations(1..n) :
                   /\ ints(DistancingSums([i \in 1..n |-> rows[f[i]]], "device_count"))
                          = ints(county_fips_to_device_count)
                   /\ ints(DistancingSums([i \in 1..n |-> rows[f[i]]],
                                          "completely_home_device_count"))
                          = ints(county_fips_to_completely_home_count)

\* Census and mobility sums that each added two rows of one key.
TwoRowsAddedUnderOneKey ==
    /\ DistancingReturned
    /\ IntegerRows(safegraph_csv)
    /\ \E i \in 1..Len(county_fips_to_number_of_males) :
          county_fips_to_number_of_males[i][2] = 6
    /\ \E i \in 1..Len(county_fips_to_device_count) :
          county_fips_to_device_count[i][2] = <<100, 1>>

-----------------------------------------------------------------------------
(* C9 *)

\* C9: the padding of a numeric identifier of at most 5 digits, text or
\* integer, is 5 characters long and is the identifier's digits with "0"
\* added on the left, and padding the result again changes nothing.
PadIsLeftPaddingAndIdempotent ==
    /\ padded # <<>> =>
          /\ Len(padded) = KeyWidth
          /\ padded = GeoKey(unpadded_fips.text)
    /\ padded_again # <<>> => padded_again = padded

\* An integer of fewer than 5 digits was padded, and padded again.
ShortIntegerPaddedTwice ==
    /\ unpadded_fips.type = "int"
    /\ Len(unpadded_fips.text) < KeyWidth
    /\ padded_again # <<>>

-----------------------------------------------------------------------------
(* C2 *)

\* C2: no ratio derivation raises, and every derived ratio is the missing
\* value when its denominator is zero or an operand is missing, and the
\* quotient numerator / denominator otherwise: census prop_male, mobility
\* proportion_stayed_at_home and male_deaths_over_total_deaths.
RatioIsMissingOrQuotient ==
    /\ raised # "ZeroDivisionError"
    /\ census_gender_by_county.exists =>
          \A i \in 1..Len(census_gender_by_county.rows) :
              LET m == county_fips_to_number_of_males[i][2]
                  f == county_fips_to_number_of_females[i][2]
              IN census_gender_by_county.rows[i][2] =
                     IF m + f = 0 THEN NaN ELSE Fraction(m, m + f)
    /\ safegraph_aggregated.exists =>
          \A i \in 1..Len(safegraph_aggregated.rows) :
              LET devices == county_fips_to_device_count[i][2]
                  homes == county_fips_to_completely_home_count[i][2]
              IN safegraph_aggregated.rows[i][2] =
                     IF devices = NaN \/ homes = NaN THEN NaN
                     ELSE IF devices[1] = 0 THEN NaN
                     ELSE Fraction(homes[1], devices[1])
    /\ covid_preprocessed.exists =>
          \A i \in 1..Len(covid_preprocessed.rows) :
              LET m == covid_preprocessed.rows[i][2]
                  f == covid_preprocessed.rows[i][3]
              IN covid_preprocessed.rows[i][4] =
                     IF m = NaN \/ f = NaN THEN NaN
                     ELSE IF m[1] + f[1] = 0 THEN NaN
                     ELSE Fraction(m[1], m[1] + f[1])

-----------------------------------------------------------------------------
(* C3 *)

\* C3: after the census aggregation there is one aggregated row per GeoKey:
\* no two keys of the sums pad to the same 5 characters, every record's
\* counts are in the sums of all records of its GeoKey, and at merge time
\* every persisted row is the reloaded table's row of its GeoKey.
OneAggregatedRowPerGeoKey ==
    /\ census_gender_by_county.exists =>
          LET recs == CensusRecords(census_csv)
              keys == StatePlusCountyFips(recs)
              total(r, field) ==
                  SumSeq([j \in 1..Len(recs) |->
                             IF GeoKey(keys[j]) # GeoKey(keys[r]) THEN 0
                             ELSE IF field = "males" THEN recs[j].number_of_males
                             ELSE recs[j].number_of_females])
          IN /\ \A i, j \in 1..Len(county_fips_to_number_of_males) :
                    GeoKey(county_fips_to_number_of_males[i][1])
                        = GeoKey(county_fips_to_number_of_males[j][1]) => i = j
             /\ \A r \in 1..Len(recs) :
                    /\ Get(county_fips_to_number_of_males, keys[r]) = total(r, "males")
                    /\ Get(county_fips_to_number_of_females, keys[r]) = total(r, "females")
    /\ merged.exists =>
          LET C == census_gender_by_county.rows
          IN /\ Len(ReloadedTable(C)) = Len(C)
             /\ \A i \in 1..Len(C) : Get(ReloadedTable(C), GeoKey(C[i][1])) = C[i][2]

-----------------------------------------------------------------------------
(* C4 *)

\* C4: in the census and in the mobility aggregation a malformed row (a
\* missing column, a non-numeric count) does not end the run and adds to no
\* key and no sum: the per-key sums are the sums over the well-formed rows.
MalformedRowsAreSkipped ==
    /\ CensusReturned =>
          LET wf == {i \in 1..Len(census_csv) :
                        /\ Len(census_csv[i]) > FEMALE_COLNUM
                        /\ IsDigits(census_csv[i][MALE_COLNUM + 1])
                        /\ IsDigits(census_csv[i][FEMALE_COLNUM + 1])}
              key(i) == census_csv[i][STATE_COLNUM + 1] \o census_csv[i][COUNTY_COLNUM + 1]
              total(i, col) ==
                  SumSeq([j \in 1..Len(census_csv) |->
                             IF j \in wf /\ key(j) = key(i)
                             THEN IntValue(census_csv[j][col + 1]) ELSE 0])
          IN /\ Items(county_fips_to_number_of_males)
                    = {<<key(i), total(i, MALE_COLNUM)>> : i \in wf}
             /\ Items(county_fips_to_number_of_females)
                    = {<<key(i), total(i, FEMALE_COLNUM)>> : i \in wf}
    /\ raised # "TypeError"
    /\ DistancingReturned =>
          LET rows == safegraph_csv
              wf == {i \in 1..Len(rows) :
                        /\ IsDigits(rows[i].device_count)
                        /\ IsDigits(rows[i].completely_home_device_count)}
              key(i) == CountyFipsCodes(rows)[i]
              total(i, name) ==
                  SumSeq([j \in 1..Len(rows) |->
                             IF j \in wf /\ key(j) = key(i)
                             THEN IntValue(rows[j][name]) ELSE 0])
          IN /\ Items(county_fips_to_device_count)
                    = {<<key(i), <<total(i, "device_count"), 1>> >> : i \in wf}
             /\ Items(county_fips_to_completely_home_count)
                    = {<<key(i), <<total(i, "completely_home_device_count"), 1>> >> :
                          i \in wf}

-----------------------------------------------------------------------------
(* C6 *)

\* C6: every 12-digit block-group code is accumulated under its first 5
\* digits: that key has the device_count and completely_home sums of all
\* rows whose code starts with those 5 digits.
CountyKeyIsFirstFiveDigits ==
    (DistancingReturned /\ IntegerRows(safegraph_csv)) =>
        LET rows == safegraph_csv
            county(i) == Prefix(rows[i].origin_census_block_group, CountyPrefixLen)
            total(i, name) ==
                SumSeq([j \in 1..Len(rows) |->
                           IF county(j) = county(i) THEN IntValue(rows[j][name]) ELSE 0])
        IN \A i \in 1..Len(rows) :
              /\ county(i) \in Keys(county_fips_to_device_count)
              /\ Get(county_fips_to_device_count, county(i))
                     = <<total(i, "device_count"), 1>>
              /\ Get(county_fips_to_completely_home_count, county(i))
                     = <<total(i, "completely_home_device_count"), 1>>

-----------------------------------------------------------------------------
(* C7 *)

\* C7: every key written to census_gender_by_county, to
\* safegraph_aggregated_*_by_county and to the merged file is 5 digits: the
\* code of a county of the input, left-padded with "0".
OutputKeysAreZeroPaddedCountyCodes ==
    /\ \A i \in 1..Len(census_gender_by_county.rows) :
          LET key == census_gender_by_county.rows[i][1]
          IN Len(key) = KeyWidth /\ IsDigits(key)
    /\ \A i \in 1..Len(safegraph_aggregated.rows) :
          LET key == safegraph_aggregated.rows[i][1]
          IN /\ Len(key) = KeyWidth
             /\ IsDigits(key)
             /\ \E j \in 1..Len(safegraph_csv) :
                   key = Prefix(safegraph_csv[j].origin_census_block_group, CountyPrefixLen)
    /\ \A i \in 1..Len(merged.rows) :
          Len(merged.rows[i][1]) = KeyWidth /\ IsDigits(merged.rows[i][1])

-----------------------------------------------------------------------------
(* C8 *)

\* C8: the two samples handed to the rank correlation are the columns of the
\* merged rows in which both proportions are present, and of no other row.
CorrelationSampleHasNoMissingValue ==
    spearman_args.called =>
        LET both(r) == r[2] # NaN /\ r[3] # NaN
            kept == SelectSeq(merged.rows, both)
        IN /\ spearman_args.proportion_male = [i \in 1..Len(kept) |-> kept[i][2]]
           /\ spearman_args.proportion_stayed_at_home = [i \in 1..Len(kept) |-> kept[i][3]]

-----------------------------------------------------------------------------
(* C10 *)

\* C10: every row of the merged file is grouped under the state whose
\* 2-digit FIPS code is the first two characters of the row's 5-character
\* key.
StateIsFirstTwoCharactersOfGeoKey ==
    pc = "done" =>
        \A i \in 1..Len(merged.rows) :
            \E j \in 1..Len(StateFipsCsv) :
                /\ StateFipsCsv[j][2] = Prefix(merged.rows[i][1], StatePrefixLen)
                /\ state_names[i] = StateFipsCsv[j][1]

====
